---- MODULE Spec2Model ----
(***************************************************************************)
(* The authors/books toy API: rest_app.py (Flask routes) and               *)
(* graphql_app.py (graphene schema).  Each program owns two module-level   *)
(* lists, authors and books, seeded with 2 authors and 7 books; a run is   *)
(* a run of one of the two programs (variable server).                     *)
(*                                                                         *)
(* Python values are tagged with their type, so that "3" == 3 is False as  *)
(* in Python; dicts are functions from keys to values; lists are           *)
(* sequences.                                                              *)
(***************************************************************************)
EXTENDS Naturals, Sequences, FiniteSets, TLC

VARIABLES server, authors, books, req, resp, pc, local

vars == <<server, authors, books, req, resp, pc, local>>

\* Bounds of the model.
MaxAuthors == 4
MaxBooks == 9
NumThreads == 2

Threads == 1..NumThreads

---------------------------------------------------------------------------
\* Python values.

JStr(s) == [t |-> "str", v |-> s]
JInt(n) == [t |-> "int", v |-> n]
None == [t |-> "null", v |-> "null"]

\* Python's == on JSON scalars: values of different types are unequal.
PyEq(a, b) == a.t = b.t /\ a.v = b.v

Digits == <<"0", "1", "2", "3", "4", "5", "6", "7", "8", "9">>

\* str(n) for a non-negative int: its decimal digits.
RECURSIVE Str(_)
Str(n) == IF n < 10 THEN Digits[n + 1]
          ELSE Str(n \div 10) \o Digits[(n % 10) + 1]

\* The text an f-string gives a value.
Fmt(x) == IF x.t = "str" THEN x.v
          ELSE IF x.t = "int" THEN Str(x.v)
          ELSE "None"

\* dict.get(key): None when the key is absent.
DictGet(data, key) == IF key \in DOMAIN data THEN data[key] ELSE None

\* request.get_json() of a request with no (or an empty) JSON object.
NoBody == <<>>

\* next((r for r in list if r["id"] == id), None)
Lookup(list, id) ==
    LET hits == {i \in 1..Len(list) : PyEq(list[i]["id"], id)}
    IN  IF hits = {} THEN None
        ELSE list[CHOOSE i \in hits : \A j \in hits : i <= j]

---------------------------------------------------------------------------
\* The seeded lists.

Author(id, name, age) == [id |-> JStr(id), name |-> JStr(name), age |-> age]
Book(id, title, author_id) ==
    [id |-> JStr(id), title |-> JStr(title), author_id |-> JStr(author_id)]

SeedAuthors ==
    << Author("1", "J.K. Rowling", JInt(59)),
       Author("2", "J.R.R. Tolkien", JInt(81)) >>

SeedBooks ==
    << Book("1", "Harry Potter and the Philosopher's Stone", "1"),
       Book("2", "Harry Potter and the Chamber of Secrets", "1"),
       Book("3", "Harry Potter and the Prisoner of Azkaban", "1"),
       Book("4", "The Hobbit", "2"),
       Book("5", "The Lord of the Rings: The Fellowship of the Ring", "2"),
       Book("6", "The Lord of the Rings: The Two Towers", "2"),
       Book("7", "The Lord of the Rings: The Return of the King", "2") >>

---------------------------------------------------------------------------
\* Requests and responses.

Req(op, arg) == [op |-> op, arg |-> arg]

\* (jsonify(body), status)
Http(status, body) == [status |-> status, body |-> body]

ErrorBody(msg) == [error |-> msg]

\* The GraphQL response envelope.
GqlData(data) == [data |-> data, errors |-> <<>>]
GqlErrors(field, msg) == [data |-> [f \in {field} |-> None], errors |-> <<msg>>]

\* Inputs the requests are drawn from.
Names == {JStr("Brandon Sanderson")}
Ages == {JInt(48)}
Titles == {JStr("Mistborn")}
AuthorIdArgs == {JStr("1"), JStr("3"), JStr("9")}
AuthorIdValues == AuthorIdArgs \cup {JInt(3)}
PathIds == {JStr("1"), JStr("3"), JStr("4"), JStr("8"), JStr("10")}

AuthorBodies ==
    {NoBody}
    \cup {[k \in {"age"} |-> a] : a \in Ages}
    \cup {[k \in {"name"} |-> n] : n \in Names}
    \cup {[name |-> n, age |-> a] : n \in Names, a \in Ages}

BookBodies ==
    {NoBody}
    \cup {[k \in {"title"} |-> ti] : ti \in Titles}
    \cup {[k \in {"author_id"} |-> a] : a \in AuthorIdValues}
    \cup {[title |-> ti, author_id |-> a] : ti \in Titles, a \in AuthorIdValues}

Init ==
    /\ server \in {"rest", "graphql"}
    /\ authors = SeedAuthors
    /\ books = SeedBooks
    /\ req = Req("none", None)
    /\ resp = None
    /\ pc = [t \in Threads |-> "idle"]
    /\ local = [t \in Threads |-> None]

---------------------------------------------------------------------------
\* rest_app.py

get_authors ==
    /\ server = "rest"
    /\ req' = Req("GET /authors", None)
    /\ resp' = Http(200, authors)
    /\ UNCHANGED <<server, authors, books, pc, local>>

\* get_author without its check of a missing author.
get_author_unchecked(author_id) ==
    /\ server = "rest"
    /\ req' = Req("GET /authors/<author_id>", author_id)
    /\ resp' = Http(200, Lookup(authors, author_id))
    /\ UNCHANGED <<server, authors, books, pc, local>>

get_author(author_id) ==
    /\ server = "rest"
    /\ req' = Req("GET /authors/<author_id>", author_id)
    /\ LET author == Lookup(authors, author_id)
       IN  resp' = IF author = None
                   THEN Http(404, ErrorBody("Author not found"))
                   ELSE Http(200, author)
    /\ UNCHANGED <<server, authors, books, pc, local>>

\* Lines 37-39: the body is refused.
create_author_refused(data) == data = NoBody \/ "name" \notin DOMAIN data

\* create_author_new with str(len(authors)) for its id.
create_author_new_len(data) ==
    [id |-> JStr(Str(Len(authors))),
     name |-> data["name"],
     age |-> DictGet(data, "age")]

\* Lines 41-46: the new record, its id from the list's current length.
create_author_new(data) ==
    [id |-> JStr(Str(Len(authors) + 1)),
     name |-> data["name"],
     age |-> DictGet(data, "age")]

create_author(data) ==
    /\ server = "rest"
    /\ req' = Req("POST /authors", data)
    /\ IF create_author_refused(data)
       THEN /\ resp' = Http(400, ErrorBody("Missing required field 'name'"))
            /\ UNCHANGED authors
       ELSE /\ Len(authors) < MaxAuthors
            /\ LET new_author == create_author_new(data)
               IN  /\ authors' = Append(authors, new_author)
                   /\ resp' = Http(201, new_author)
    /\ UNCHANGED <<server, books, pc, local>>

get_books ==
    /\ server = "rest"
    /\ req' = Req("GET /books", None)
    /\ resp' = Http(200, books)
    /\ UNCHANGED <<server, authors, books, pc, local>>

\* book_with_author looking the author up by the book's own id.
book_with_author_by_book_id(book) ==
    LET author == Lookup(authors, book["id"])
    IN  [k \in DOMAIN book \cup {"author"} |->
            IF k = "author" THEN author ELSE book[k]]

\* Lines 63-67: {**book, "author": author}, a new dict.
book_with_author(book) ==
    LET author == Lookup(authors, book["author_id"])
    IN  [k \in DOMAIN book \cup {"author"} |->
            IF k = "author" THEN author ELSE book[k]]

\* get_book setting book["author"] on the stored dict.
get_book_inplace(book_id) ==
    /\ server = "rest"
    /\ req' = Req("GET /books/<book_id>", book_id)
    /\ LET hits == {i \in 1..Len(books) : PyEq(books[i]["id"], book_id)}
       IN  IF hits = {}
           THEN /\ resp' = Http(404, ErrorBody("Book not found"))
                /\ UNCHANGED books
           ELSE LET i == CHOOSE i \in hits : \A j \in hits : i <= j
                IN  /\ books' = [books EXCEPT ![i] = book_with_author(books[i])]
                    /\ resp' = Http(200, book_with_author(books[i]))
    /\ UNCHANGED <<server, authors, pc, local>>

get_book(book_id) ==
    /\ server = "rest"
    /\ req' = Req("GET /books/<book_id>", book_id)
    /\ LET book == Lookup(books, book_id)
       IN  resp' = IF book = None
                   THEN Http(404, ErrorBody("Book not found"))
                   ELSE Http(200, book_with_author(book))
    /\ UNCHANGED <<server, authors, books, pc, local>>

\* Lines 74-75: a required field is missing.
create_book_refused(data) ==
    data = NoBody \/ "title" \notin DOMAIN data \/ "author_id" \notin DOMAIN data

\* create_book without its check of the author.
create_book_no_author_skipped(data) == FALSE

\* Lines 77-79: not matching_author.
create_book_no_author(data) == Lookup(authors, data["author_id"]) = None

\* create_book_new with the author list's length for its id.
create_book_new_authors_len(data) ==
    [id |-> JStr(Str(Len(authors) + 1)),
     title |-> data["title"],
     author_id |-> data["author_id"]]

\* Lines 82-87.
create_book_new(data) ==
    [id |-> JStr(Str(Len(books) + 1)),
     title |-> data["title"],
     author_id |-> data["author_id"]]

create_book(data) ==
    /\ server = "rest"
    /\ req' = Req("POST /books", data)
    /\ IF create_book_refused(data)
       THEN /\ resp' = Http(400, ErrorBody(
                           "Missing required fields 'title' or 'author_id'"))
            /\ UNCHANGED books
       ELSE IF create_book_no_author(data)
       THEN /\ resp' = Http(400, ErrorBody(
                           "No Author found with id=" \o Fmt(data["author_id"])))
            /\ UNCHANGED books
       ELSE /\ Len(books) < MaxBooks
            /\ LET new_book == create_book_new(data)
               IN  /\ books' = Append(books, new_book)
                   /\ resp' = Http(201, new_book)
    /\ UNCHANGED <<server, authors, pc, local>>

RestNext ==
    \/ get_authors
    \/ \E author_id \in PathIds : get_author(author_id)
    \/ \E data \in AuthorBodies : create_author(data)
    \/ get_books
    \/ \E book_id \in PathIds : get_book(book_id)
    \/ \E data \in BookBodies : create_book(data)

---------------------------------------------------------------------------
\* graphql_app.py.  A response carries, for each object of the result, the
\* dict its resolver returned, with the fields that have a resolver of their
\* own added: author(id) { id name age books { id title } } and
\* allBooks { id title author { id name age } }.

GqlAgeArgs == Ages \cup {None}

\* The comprehension building its list back to front.
RECURSIVE books_comprehension_rev(_, _)
books_comprehension_rev(author_id, i) ==
    IF i > Len(books) THEN <<>>
    ELSE books_comprehension_rev(author_id, i + 1)
         \o (IF PyEq(books[i]["author_id"], author_id) THEN <<books[i]>> ELSE <<>>)

\* [book for book in books if book["author_id"] == author_id], from index i on.
RECURSIVE books_comprehension(_, _)
books_comprehension(author_id, i) ==
    IF i > Len(books) THEN <<>>
    ELSE (IF PyEq(books[i]["author_id"], author_id) THEN <<books[i]>> ELSE <<>>)
         \o books_comprehension(author_id, i + 1)

AuthorType_resolve_books(self) ==
    LET author_id == DictGet(self, "id")
    IN  books_comprehension(author_id, 1)

BookType_resolve_author(self) ==
    LET author_id == DictGet(self, "author_id")
    IN  Lookup(authors, author_id)

Query_resolve_author(id) ==
    /\ server = "graphql"
    /\ req' = Req("author", [id |-> id])
    /\ LET author == Lookup(authors, id)
       IN  resp' = IF author = None
                   THEN GqlData([author |-> None])
                   ELSE GqlData([author |->
                            [k \in DOMAIN author \cup {"books"} |->
                                IF k = "books" THEN AuthorType_resolve_books(author)
                                ELSE author[k]]])
    /\ UNCHANGED <<server, authors, books, pc, local>>

Query_resolve_all_books ==
    /\ server = "graphql"
    /\ req' = Req("allBooks", None)
    /\ resp' = GqlData([allBooks |->
                   [i \in 1..Len(books) |->
                       [k \in DOMAIN books[i] \cup {"author"} |->
                           IF k = "author" THEN BookType_resolve_author(books[i])
                           ELSE books[i][k]]]])
    /\ UNCHANGED <<server, authors, books, pc, local>>

\* Lines 63-68.
CreateAuthor_new(name, age) ==
    [id |-> JStr(Str(Len(authors) + 1)), name |-> name, age |-> age]

CreateAuthor_mutate(name, age) ==
    /\ server = "graphql"
    /\ req' = Req("createAuthor", [name |-> name, age |-> age])
    /\ Len(authors) < MaxAuthors
    /\ LET new_author == CreateAuthor_new(name, age)
       IN  /\ authors' = Append(authors, new_author)
           /\ resp' = GqlData([createAuthor |-> [author |-> new_author]])
    /\ UNCHANGED <<server, books, pc, local>>

\* CreateBook.mutate without its check of the author.
CreateBook_no_author_skipped(author_id) == FALSE

\* Lines 81-83: not matching_author.
CreateBook_no_author(author_id) == Lookup(authors, author_id) = None

\* CreateBook_new with str(len(books)) for its id.
CreateBook_new_len(title, author_id) ==
    [id |-> JStr(Str(Len(books))), title |-> title, author_id |-> author_id]

\* Lines 86-91.
CreateBook_new(title, author_id) ==
    [id |-> JStr(Str(Len(books) + 1)), title |-> title, author_id |-> author_id]

CreateBook_mutate(title, author_id) ==
    /\ server = "graphql"
    /\ req' = Req("createBook", [title |-> title, author_id |-> author_id])
    /\ IF CreateBook_no_author(author_id)
       THEN /\ resp' = GqlErrors("createBook",
                           "No Author found with id=" \o Fmt(author_id))
            /\ UNCHANGED books
       ELSE /\ Len(books) < MaxBooks
            /\ LET new_book == CreateBook_new(title, author_id)
               IN  /\ books' = Append(books, new_book)
                   /\ resp' = GqlData([createBook |-> [book |-> new_book]])
    /\ UNCHANGED <<server, authors, pc, local>>

GraphqlNext ==
    \/ \E id \in PathIds : Query_resolve_author(id)
    \/ Query_resolve_all_books
    \/ \E name \in Names, age \in GqlAgeArgs : CreateAuthor_mutate(name, age)
    \/ \E title \in Titles, author_id \in AuthorIdArgs :
           CreateBook_mutate(title, author_id)

\* Each request runs to completion before the next starts.
Next == RestNext \/ GraphqlNext

Spec == Init /\ [][Next]_vars

---------------------------------------------------------------------------
\* Concurrent requests.  Nothing locks the lists: a create handler reads the
\* list's length into its new record (one step), and appends the record
\* (a later step); the steps of the requests the threads serve interleave.
\* pc[t] is where thread t's handler stands, local[t] its request and the
\* record it built (gone when the handler returns).

Pending(where) == Cardinality({t \in Threads : pc[t] = where})

Frame(t, where, request, record) ==
    /\ pc' = [pc EXCEPT ![t] = where]
    /\ local' = [local EXCEPT ![t] = [req |-> request, new |-> record]]

\* rest_app.py lines 37-46, then 47-49.
create_author_compute(t, data) ==
    /\ server = "rest"
    /\ pc[t] = "idle"
    /\ IF create_author_refused(data)
       THEN /\ req' = Req("POST /authors", data)
            /\ resp' = Http(400, ErrorBody("Missing required field 'name'"))
            /\ UNCHANGED <<pc, local>>
       ELSE /\ Len(authors) + Pending("append_author") < MaxAuthors
            /\ Frame(t, "append_author", Req("POST /authors", data),
                     create_author_new(data))
            /\ UNCHANGED <<req, resp>>
    /\ UNCHANGED <<server, authors, books>>

\* create_author_append with the id taken from the list's length as it appends.
create_author_append_fresh(t) ==
    /\ server = "rest"
    /\ pc[t] = "append_author"
    /\ LET new_author == [local[t].new EXCEPT !["id"] = JStr(Str(Len(authors) + 1))]
       IN  /\ authors' = Append(authors, new_author)
           /\ resp' = Http(201, new_author)
    /\ req' = local[t].req
    /\ pc' = [pc EXCEPT ![t] = "idle"]
    /\ local' = [local EXCEPT ![t] = None]
    /\ UNCHANGED <<server, books>>

create_author_append(t) ==
    /\ server = "rest"
    /\ pc[t] = "append_author"
    /\ authors' = Append(authors, local[t].new)
    /\ req' = local[t].req
    /\ resp' = Http(201, local[t].new)
    /\ pc' = [pc EXCEPT ![t] = "idle"]
    /\ local' = [local EXCEPT ![t] = None]
    /\ UNCHANGED <<server, books>>

\* rest_app.py lines 73-87, then 88-90.
create_book_compute(t, data) ==
    /\ server = "rest"
    /\ pc[t] = "idle"
    /\ IF create_book_refused(data)
       THEN /\ req' = Req("POST /books", data)
            /\ resp' = Http(400, ErrorBody(
                           "Missing required fields 'title' or 'author_id'"))
            /\ UNCHANGED <<pc, local>>
       ELSE IF create_book_no_author(data)
       THEN /\ req' = Req("POST /books", data)
            /\ resp' = Http(400, ErrorBody(
                           "No Author found with id=" \o Fmt(data["author_id"])))
            /\ UNCHANGED <<pc, local>>
       ELSE /\ Len(books) + Pending("append_book") < MaxBooks
            /\ Frame(t, "append_book", Req("POST /books", data),
                     create_book_new(data))
            /\ UNCHANGED <<req, resp>>
    /\ UNCHANGED <<server, authors, books>>

create_book_append(t) ==
    /\ server = "rest"
    /\ pc[t] = "append_book"
    /\ books' = Append(books, local[t].new)
    /\ req' = local[t].req
    /\ resp' = Http(201, local[t].new)
    /\ pc' = [pc EXCEPT ![t] = "idle"]
    /\ local' = [local EXCEPT ![t] = None]
    /\ UNCHANGED <<server, authors>>

\* graphql_app.py lines 63-68, then 69-70.
CreateAuthor_compute(t, name, age) ==
    /\ server = "graphql"
    /\ pc[t] = "idle"
    /\ Len(authors) + Pending("append_author") < MaxAuthors
    /\ Frame(t, "append_author",
             Req("createAuthor", [name |-> name, age |-> age]),
             CreateAuthor_new(name, age))
    /\ UNCHANGED <<server, authors, books, req, resp>>

CreateAuthor_append(t) ==
    /\ server = "graphql"
    /\ pc[t] = "append_author"
    /\ authors' = Append(authors, local[t].new)
    /\ req' = local[t].req
    /\ resp' = GqlData([createAuthor |-> [author |-> local[t].new]])
    /\ pc' = [pc EXCEPT ![t] = "idle"]
    /\ local' = [local EXCEPT ![t] = None]
    /\ UNCHANGED <<server, books>>

\* graphql_app.py lines 81-91, then 92-93.
CreateBook_compute(t, title, author_id) ==
    /\ server = "graphql"
    /\ pc[t] = "idle"
    /\ IF CreateBook_no_author(author_id)
       THEN /\ req' = Req("createBook", [title |-> title, author_id |-> author_id])
            /\ resp' = GqlErrors("createBook",
                           "No Author found with id=" \o Fmt(author_id))
            /\ UNCHANGED <<pc, local>>
       ELSE /\ Len(books) + Pending("append_book") < MaxBooks
            /\ Frame(t, "append_book",
                     Req("createBook", [title |-> title, author_id |-> author_id]),
                     CreateBook_new(title, author_id))
            /\ UNCHANGED <<req, resp>>
    /\ UNCHANGED <<server, authors, books>>

CreateBook_append(t) ==
    /\ server = "graphql"
    /\ pc[t] = "append_book"
    /\ books' = Append(books, local[t].new)
    /\ req' = local[t].req
    /\ resp' = GqlData([createBook |-> [book |-> local[t].new]])
    /\ pc' = [pc EXCEPT ![t] = "idle"]
    /\ local' = [local EXCEPT ![t] = None]
    /\ UNCHANGED <<server, authors>>

\* The bodies and arguments of the concurrent requests.
ConcAuthorIds == {JStr("1"), JStr("9")}
ConcAuthorBodies == {NoBody} \cup {[name |-> n, age |-> a] : n \in Names, a \in Ages}
ConcBookBodies ==
    {NoBody} \cup {[title |-> ti, author_id |-> a] : ti \in Titles, a \in ConcAuthorIds}

NextConc ==
    \E t \in Threads :
        \/ \E data \in ConcAuthorBodies : create_author_compute(t, data)
        \/ create_author_append(t)
        \/ \E data \in ConcBookBodies : create_book_compute(t, data)
        \/ create_book_append(t)
        \/ \E name \in Names, age \in Ages : CreateAuthor_compute(t, name, age)
        \/ CreateAuthor_append(t)
        \/ \E title \in Titles, author_id \in ConcAuthorIds :
               CreateBook_compute(t, title, author_id)
        \/ CreateBook_append(t)

SpecConc == Init /\ [][NextConc]_vars

---------------------------------------------------------------------------
\* Properties.

HasId(list, id) == \E i \in 1..Len(list) : PyEq(list[i]["id"], id)

Duplicate(list) ==
    \E i, j \in 1..Len(list) : i # j /\ PyEq(list[i]["id"], list[j]["id"])

IsPrefix(s, t) == Len(s) <= Len(t) /\ SubSeq(t, 1, Len(s)) = s

IsRead(op) ==
    op \in {"GET /authors", "GET /authors/<author_id>", "GET /books",
            "GET /books/<book_id>", "author", "allBooks"}

\* The decimal numerals, written out.
Numerals == <<"1", "2", "3", "4", "5", "6", "7", "8", "9", "10", "11", "12">>

BrandonSanderson == [id |-> JStr("3"), name |-> JStr("Brandon Sanderson"),
                     age |-> JInt(48)]
Mistborn == [id |-> JStr("8"), title |-> JStr("Mistborn"), author_id |-> JStr("3")]

\* C1: every book in the book list has an author_id equal to the id of some
\* author in the author list, whatever requests were served.
C1_ReferentialIntegrity ==
    \A i \in 1..Len(books) : HasId(authors, books[i]["author_id"])

\* A book created by a request, referring to an author created by a request.
C1_Witness ==
    /\ Len(books) > Len(SeedBooks)
    /\ books[Len(books)]["author_id"] = JStr("3")
    /\ "author_id" \in DOMAIN req.arg
    /\ ~HasId(authors, req.arg["author_id"])

\* C2: a create-book request whose author_id matches no author fails (REST:
\* 400; GraphQL: an error entry), and leaves both lists as they were.
C2_DanglingCreateBookFails ==
    [][ /\ ( /\ req'.op = "POST /books"
             /\ "author_id" \in DOMAIN req'.arg
             /\ ~HasId(authors, req'.arg["author_id"]) )
           => /\ resp'.status = 400
              /\ "error" \in DOMAIN resp'.body
              /\ books' = books
              /\ authors' = authors
        /\ ( /\ req'.op = "createBook"
             /\ ~HasId(authors, req'.arg["author_id"]) )
           => /\ resp'.errors # <<>>
              /\ resp'.data["createBook"] = None
              /\ books' = books
              /\ authors' = authors
      ]_vars

\* POST /books with author_id 3 (a number) while the author "3" exists.
C2_Witness ==
    /\ req.op = "POST /books"
    /\ DOMAIN req.arg = {"title", "author_id"}
    /\ req.arg["author_id"] = JInt(3)
    /\ HasId(authors, JStr("3"))
    /\ resp.status = 400

\* C3: a create-author request carrying a name succeeds, its record's id is
\* the numeral of (number of authors before + 1), the author list becomes the
\* previous list with that record appended, and the book list is unchanged.
C3_CreateAuthor ==
    [][ /\ (req'.op = "POST /authors" /\ "name" \in DOMAIN req'.arg)
           => /\ resp'.status = 201
              /\ resp'.body["id"] = JStr(Numerals[Len(authors) + 1])
              /\ authors' = Append(authors, resp'.body)
              /\ books' = books
        /\ (req'.op = "createAuthor")
           => /\ resp'.errors = <<>>
              /\ resp'.data["createAuthor"]["author"]["id"]
                     = JStr(Numerals[Len(authors) + 1])
              /\ authors' = Append(authors, resp'.data["createAuthor"]["author"])
              /\ books' = books
      ]_vars

C3_Witness ==
    /\ req.op = "POST /authors"
    /\ resp.status = 201
    /\ resp.body["id"] = JStr("4")
    /\ Len(authors) = 4
    /\ authors[4] = resp.body

\* C4: requests running one after another, no two authors share an id and no
\* two books share an id.
C4_UniqueIds == ~Duplicate(authors) /\ ~Duplicate(books)

C4_Witness == Len(authors) >= 4 /\ Len(books) >= 9

\* C5: with the id computed and the record appended in separate steps, a
\* thread that appends after another request's record has taken the id it
\* computed leaves two records with the same id in the list.
C5_RaceDuplicates ==
    [][ \A t \in Threads :
          /\ ( /\ pc[t] = "append_author" /\ pc'[t] = "idle"
               /\ HasId(authors, local[t].new["id"]) )
             => Duplicate(authors')
          /\ ( /\ pc[t] = "append_book" /\ pc'[t] = "idle"
               /\ HasId(books, local[t].new["id"]) )
             => Duplicate(books')
      ]_vars

\* Two authors with the same id and two books with the same id.
C5_Witness == Duplicate(authors) /\ Duplicate(books)

\* C6: every request leaves each list unchanged or extended by one record at
\* its end, and a read request changes neither list.
C6_AppendOnly ==
    [][ /\ IsPrefix(authors, authors')
        /\ IsPrefix(books, books')
        /\ Len(authors') <= Len(authors) + 1
        /\ Len(books') <= Len(books) + 1
        /\ IsRead(req'.op) => (authors' = authors /\ books' = books)
      ]_vars

\* A read served after both lists have grown.
C6_Witness ==
    /\ req.op = "GET /books/<book_id>"
    /\ resp.status = 200
    /\ Len(authors) > Len(SeedAuthors)
    /\ Len(books) > Len(SeedBooks)

\* C7: GET /books/{id} of a book in the list returns 200 with the book's
\* fields and an author field: the author whose id is the book's author_id,
\* or null when there is none; no stored book has an author field.
C7_GetBook ==
    (server = "rest" /\ req.op = "GET /books/<book_id>" /\ HasId(books, req.arg))
    => LET book == books[CHOOSE i \in 1..Len(books) : PyEq(books[i]["id"], req.arg)]
       IN  /\ resp.status = 200
           /\ DOMAIN resp.body = DOMAIN book \cup {"author"}
           /\ \A k \in DOMAIN book : resp.body[k] = book[k]
           /\ \/ \E j \in 1..Len(authors) :
                    /\ PyEq(authors[j]["id"], book["author_id"])
                    /\ resp.body["author"] = authors[j]
              \/ /\ ~HasId(authors, book["author_id"])
                 /\ resp.body["author"] = None
           /\ \A i \in 1..Len(books) : "author" \notin DOMAIN books[i]

\* GET /books/8, a book of the author created before it.
C7_Witness ==
    /\ server = "rest"
    /\ req = Req("GET /books/<book_id>", JStr("8"))
    /\ resp.status = 200
    /\ resp.body["author"]["id"] = JStr("3")

\* C8: author(id).books of an author in the store holds exactly the records
\* of allBooks whose author_id is the id, each once, in allBooks' order.
C8_AuthorBooks ==
    (server = "graphql" /\ req.op = "author" /\ HasId(authors, req.arg.id))
    => LET result == resp.data["author"]["books"]
           mine == {j \in 1..Len(books) : PyEq(books[j]["author_id"], req.arg.id)}
       IN  /\ Len(result) = Cardinality(mine)
           /\ \A j \in mine :
                  result[Cardinality({m \in mine : m <= j})] = books[j]

\* author("1") after a book of that author was created: 4 books, the new last.
C8_Witness ==
    /\ server = "graphql"
    /\ req = Req("author", [id |-> JStr("1")])
    /\ Len(books) = 9
    /\ books[8]["author_id"] = JStr("3")
    /\ books[9]["author_id"] = JStr("1")
    /\ Len(resp.data["author"]["books"]) = 4
    /\ resp.data["author"]["books"][4] = books[9]

\* C9: GET /authors/{id} returns 404 with an error body when no author has
\* the id, and 200 with the first author carrying it otherwise; the lists
\* are unchanged.
C9_GetAuthor ==
    [][ (req'.op = "GET /authors/<author_id>")
        => /\ ~HasId(authors, req'.arg)
              => (resp'.status = 404 /\ "error" \in DOMAIN resp'.body)
           /\ HasId(authors, req'.arg)
              => /\ resp'.status = 200
                 /\ \E i \in 1..Len(authors) :
                        /\ PyEq(authors[i]["id"], req'.arg)
                        /\ \A j \in 1..(i - 1) : ~PyEq(authors[j]["id"], req'.arg)
                        /\ resp'.body = authors[i]
           /\ authors' = authors
           /\ books' = books
      ]_vars

\* GET /authors/4 with three authors in the list.
C9_Witness ==
    /\ req = Req("GET /authors/<author_id>", JStr("4"))
    /\ Len(authors) = 3
    /\ resp.status = 404

\* C10: from the seeded lists, POST /authors (Brandon Sanderson, 48) returns
\* 201 with id "3"; then POST /books (Mistborn, author_id "3") returns 201
\* with id "8"; then GET /books/8 returns 200 with the author "3" embedded.
C10_Scenario ==
    [][ server = "rest" =>
        /\ ( /\ authors = SeedAuthors /\ books = SeedBooks
             /\ req' = Req("POST /authors",
                           [name |-> JStr("Brandon Sanderson"), age |-> JInt(48)]) )
           => /\ resp' = Http(201, BrandonSanderson)
              /\ authors' = Append(SeedAuthors, BrandonSanderson)
        /\ ( /\ authors = Append(SeedAuthors, BrandonSanderson) /\ books = SeedBooks
             /\ req' = Req("POST /books",
                           [title |-> JStr("Mistborn"), author_id |-> JStr("3")]) )
           => /\ resp' = Http(201, Mistborn)
              /\ books' = Append(SeedBooks, Mistborn)
        /\ ( /\ authors = Append(SeedAuthors, BrandonSanderson)
             /\ books = Append(SeedBooks, Mistborn)
             /\ req' = Req("GET /books/<book_id>", JStr("8")) )
           => /\ resp'.status = 200
              /\ resp'.body["author"] = BrandonSanderson
              /\ resp'.body["id"] = JStr("8")
      ]_vars

\* The scenario's last response, in the state its two creations leave.
C10_Witness ==
    /\ server = "rest"
    /\ authors = Append(SeedAuthors, BrandonSanderson)
    /\ books = Append(SeedBooks, Mistborn)
    /\ req = Req("GET /books/<book_id>", JStr("8"))
    /\ resp.status = 200
    /\ resp.body["author"]["id"] = JStr("3")
====
